---------------------------- MODULE Spec2Model ----------------------------
(***************************************************************************)
(* Model of the rule engine of salty-dog:                                  *)
(*   src/src/rule/index.ts       resolveRules, visitRules                  *)
(*   src/test/config/TestConfig.ts (second half)   class SchemaRule        *)
(*                                                                         *)
(* Two specifications share the module:                                    *)
(*   Spec         visitRules run twice in succession over a document       *)
(*   SpecResolve  resolveRules over a catalog and a selector               *)
(***************************************************************************)
EXTENDS Integers, Sequences, FiniteSets, TLC

(* ------------------------------ bounds -------------------------------- *)
\* longest list of active rules handed to visitRules
MaxRules == 2
\* number of elements of the document a rule can select
NumNodes == 2
\* longest rule catalog handed to resolveRules
MaxCatalog == 2
\* most entries in each of the six selector criteria
MaxCriteria == 1

(* --------------------------- document values -------------------------- *)
Fields == {"port", "tag"}
\* key order of an element, the order deep-diff walks the keys in
FieldOrder == <<"port", "tag">>
\* "absent": the key is missing; "a": a value as written in the document;
\* "b": the value a schema default or a type coercion writes
Nodes == 1..NumNodes
\* the element values documents start from
SourceNodeValues == [Fields -> {"absent", "a"}]

\* an optional value: <<>> when it is missing, <<v>> when it is v
Nil == <<>>

(* ------------------------------ schemas ------------------------------- *)
\* A compiled schema (ajv ValidateFunction) is described by what it does to
\* the node it is called on: keys it requires, keys it removes, keys it
\* gives a default, keys whose value it coerces, and whether a rejection
\* leaves validate.errors empty.
Schema(req, rem, def, coe, silent) ==
    [required |-> req, remove |-> rem, defaults |-> def, coerce |-> coe, silent |-> silent]

RequireBoth    == Schema({"port", "tag"}, {}, {}, {"port"}, FALSE)
DefaultTag     == Schema({}, {}, {"tag"}, {}, FALSE)
CoercePort     == Schema({"port"}, {}, {}, {"port"}, FALSE)
PortDefaultTag == Schema({"port"}, {}, {"tag"}, {}, FALSE)
SilentPort     == Schema({"port"}, {"tag"}, {}, {}, TRUE)

\* the node as the validator leaves it
Transform(schema, node) ==
    [f \in Fields |->
        IF f \in schema.remove THEN "absent"
        ELSE IF f \in schema.defaults /\ node[f] = "absent" THEN "b"
        ELSE IF f \in schema.coerce /\ node[f] = "a" THEN "b"
        ELSE node[f]]

\* one validation-failure descriptor per missing required key, in key order
Descriptors(schema, node) ==
    LET Missing(i) == FieldOrder[i] \in schema.required /\ node[FieldOrder[i]] = "absent"
        D(i) == [keyword |-> "required", dataPath |-> FieldOrder[i]]
    IN  (IF Missing(1) THEN <<D(1)>> ELSE <<>>) \o (IF Missing(2) THEN <<D(2)>> ELSE <<>>)

\* calling the compiled schema on a node: the verdict, validate.errors and the
\* node as left by the call
Validate(schema, node) ==
    LET out == Transform(schema, node)
        errs == Descriptors(schema, out)
    IN  [valid |-> Len(errs) = 0,
         errors |-> IF schema.silent THEN <<>> ELSE errs,
         node |-> out]

\* ctx.compile(schema): the compiled form of the schema
Compile(schema) == schema

\* () => true
AlwaysTrue == Schema({}, {}, {}, {}, FALSE)

(* ------------------------------- rules -------------------------------- *)
Levels == {"debug", "warn"}
Names == {"ports", "tags"}
Tags == {"net", "meta"}

SchemaRule(level, name, tags, select, filter, check) ==
    [level |-> level, name |-> name, tags |-> tags,
     select |-> select, filter |-> filter, check |-> check]

RuleIds == {"r1", "r2", "r3", "r4"}

\* the rule objects; a rule's identity is its id
RuleTable ==
    [id \in RuleIds |->
        CASE id = "r1" -> SchemaRule("warn", "ports", {"net"}, "$.servers[*]", Nil, RequireBoth)
          [] id = "r2" -> SchemaRule("debug", "tags", {"net", "meta"}, "$.servers[*]", Nil, DefaultTag)
          [] id = "r3" -> SchemaRule("warn", "ports", {}, "$.servers[?(@.tag)]", Nil, SilentPort)
          [] id = "r4" -> SchemaRule("debug", "tags", {"meta"}, "$.servers[*]", <<PortDefaultTag>>, CoercePort)]

\* the rules catalogs are drawn from
CatalogIds == {"r1", "r2", "r3"}

(* --------------------------- sequence helpers ------------------------- *)
RECURSIVE SeqsUpTo(_, _)
SeqsUpTo(S, n) ==
    IF n = 0 THEN {<<>>}
    ELSE LET shorter == SeqsUpTo(S, n - 1)
         IN  shorter \cup {Append(s, x) : s \in shorter, x \in S}

Range(s) == {s[i] : i \in DOMAIN s}


(* ------------------------- library operations ------------------------- *)
\* lodash cloneDeep: a fresh value with the same keys and values
CloneDeep(node) == [f \in DOMAIN node |-> node[f]]

\* utils hasItems: the list exists and is not empty (a missing list is <<>>)
HasItems(list) == Len(list) > 0

\* deep-diff diff(lhs, rhs): one change per key that differs, in key order;
\* N a key only rhs has, D a key only lhs has, E a key whose value differs
DiffKey(lhs, rhs, f) ==
    IF lhs[f] = rhs[f] THEN <<>>
    ELSE IF lhs[f] = "absent" THEN <<[kind |-> "N", path |-> f, lhs |-> "absent", rhs |-> rhs[f]]>>
    ELSE IF rhs[f] = "absent" THEN <<[kind |-> "D", path |-> f, lhs |-> lhs[f], rhs |-> "absent"]>>
    ELSE <<[kind |-> "E", path |-> f, lhs |-> lhs[f], rhs |-> rhs[f]]>>

Diff(lhs, rhs) == DiffKey(lhs, rhs, FieldOrder[1]) \o DiffKey(lhs, rhs, FieldOrder[2])

\* deep-diff applyChange: D deletes the key, N and E write the new value
ApplyChange(target, change) ==
    IF change.kind = "D" THEN [target EXCEPT ![change.path] = "absent"]
    ELSE [target EXCEPT ![change.path] = change.rhs]

RECURSIVE ApplyChanges(_, _)
ApplyChanges(target, changes) ==
    IF changes = <<>> THEN target
    ELSE ApplyChanges(ApplyChange(target, Head(changes)), Tail(changes))

\* deep-diff applyDiff(target, source): every change of diff(target, source)
\* is applied to target, in place
ApplyDiff(target, source) == ApplyChanges(target, Diff(target, source))

(* ------------------------- VisitorContext ----------------------------- *)
\* ctx.pick(select, root): the selected elements of the document, in
\* document order, as references (indices) into it
Pick(select, root) ==
    LET Sel(n) == CASE select = "$.servers[*]" -> TRUE
                    [] select = "$.servers[?(@.tag)]" -> root[n]["tag"] # "absent"
                    [] OTHER -> FALSE
        F[n \in 0..NumNodes] ==
            IF n = 0 THEN <<>> ELSE IF Sel(n) THEN Append(F[n - 1], n) ELSE F[n - 1]
    IN  F[NumNodes]

\* ctx.mergeResult(result): the result's changes and errors are appended to
\* the context's report
MergeResult(c, result) ==
    [changes |-> c.changes \o result.changes, errors |-> c.errors \o result.errors]

\* a new VisitorContext: an empty report
NewContext == [changes |-> <<>>, errors |-> <<>>]

\* friendlyError(ctx, err, rule): the descriptor as a rule error
FriendlyError(err, id) ==
    [rule |-> id, path |-> err.dataPath, msg |-> err.keyword]

(* ----------------------------- SchemaRule ----------------------------- *)
\* SchemaRule.compileFilter
CompileFilter(id) ==
    IF RuleTable[id].filter = Nil THEN AlwaysTrue ELSE Compile(RuleTable[id].filter[1])

\* variant: the check is evaluated whatever the filter said
VisitUnfiltered(id, node) ==
    LET cr == Validate(Compile(RuleTable[id].check), node)
    IN  [result |-> [changes |-> <<>>,
                     errors |-> [i \in 1..Len(cr.errors) |-> FriendlyError(cr.errors[i], id)]],
         node |-> cr.node, checkRan |-> TRUE]

\* SchemaRule.visit on the node handed to it: the result returned, the node
\* as the validators left it, and whether check(node) was called
Visit(id, node) ==
    LET check == Compile(RuleTable[id].check)
        filter == CompileFilter(id)
        fr == Validate(filter, node)
        cr == Validate(check, fr.node)
    IN  IF fr.valid
        THEN [result |-> [changes |-> <<>>,
                          errors |-> IF ~cr.valid /\ HasItems(cr.errors)
                                     THEN [i \in 1..Len(cr.errors) |-> FriendlyError(cr.errors[i], id)]
                                     ELSE <<>>],
              node |-> cr.node, checkRan |-> TRUE]
        ELSE [result |-> [changes |-> <<>>, errors |-> <<>>],
              node |-> fr.node, checkRan |-> FALSE]

(* ------------------------------ state --------------------------------- *)
VARIABLES
    rules,       \* visitRules: the active rules (ids), in order
    data,        \* visitRules: the live document, element -> value
    mutate,      \* ctx.innerOptions.mutate
    ctx,         \* the context's report: changes and errors
    logger,      \* the messages logged through ctx.logger
    pc,          \* position in visitRules: "rule", "item", "done" ("idle": not called)
    ri,          \* index of the rule of the outer loop
    items,       \* the elements picked for the rule
    ii,          \* index of the item of the inner loop
    run,         \* "first" or "second" call of visitRules
    data0,       \* the document before the first call
    reports,     \* the reports of the finished calls
    history,     \* one record per visited (rule, item) pair
    picked,      \* one record per pick
    catalog,     \* resolveRules: the rules (ids) handed in
    selector,    \* resolveRules: the selector
    activeRules, \* resolveRules: the Set, in insertion order
    rk,          \* resolveRules: index in the catalog
    rpc          \* position in resolveRules: "loop", "done" ("idle": not called)

visitVars == <<rules, data, mutate, ctx, logger, pc, ri, items, ii, run, data0, reports,
               history, picked>>
resolveVars == <<catalog, selector, activeRules, rk, rpc>>
vars == <<rules, data, mutate, ctx, logger, pc, ri, items, ii, run, data0, reports,
          history, picked, catalog, selector, activeRules, rk, rpc>>

NoSelector ==
    [excludeLevel |-> {}, excludeName |-> {}, excludeTag |-> {},
     includeLevel |-> {}, includeName |-> {}, includeTag |-> {}]

ResolveIdle ==
    /\ catalog = <<>>
    /\ selector = NoSelector
    /\ activeRules = <<>>
    /\ rk = 1
    /\ rpc = "idle"

\* visitRules is entered with an array of rules, a document and a context
Init ==
    /\ rules \in SeqsUpTo(RuleIds, MaxRules) \ {<<>>}
    /\ data \in [Nodes -> SourceNodeValues]
    /\ mutate \in BOOLEAN
    /\ ctx = NewContext
    /\ logger = <<>>
    /\ pc = "rule"
    /\ ri = 1
    /\ items = <<>>
    /\ ii = 1
    /\ run = "first"
    /\ data0 = data
    /\ reports = <<>>
    /\ history = <<>>
    /\ picked = <<>>
    /\ ResolveIdle

(* ----------------------------- visitRules ----------------------------- *)
Log(msg, id) == [msg |-> msg, rule |-> id]

\* variant: the error branch is never taken
FailedNever(ruleResult) == FALSE
\* line 115: the visit reported errors
Failed(ruleResult) == Len(ruleResult.errors) > 0

\* variant: the mutate flag is not consulted
CommitsAlways(m, itemDiff) == HasItems(itemDiff)
\* lines 122 and 129: the diff is written back to the live element
Commits(m, itemDiff) == HasItems(itemDiff) /\ m

\* variant: break, the remaining items of the rule are dropped
AbortAfterFailure(i, n) == n + 1
\* line 118: continue with the next item
AfterFailure(i, n) == i + 1

\* variant: the working copy is cloned from a snapshot taken before the run
ItemValueSnapshot(root, root0, item) == root0[item]
\* line 112: the value the working copy is cloned from
ItemValue(root, root0, item) == root[item]

\* for (const rule of rules): const items = await rule.pick(ctx, data)
PickItems ==
    /\ pc = "rule"
    /\ ri <= Len(rules)
    /\ LET found == Pick(RuleTable[rules[ri]].select, data)
       IN  /\ items' = found
           /\ logger' = IF Len(found) = 0
                        THEN Append(logger, Log("no data selected", rules[ri]))
                        ELSE logger
           /\ picked' = Append(picked, [run |-> run, ri |-> ri, seen |-> Len(history), items |-> found])
    /\ ii' = 1
    /\ pc' = "item"
    /\ UNCHANGED <<rules, data, mutate, ctx, ri, run, data0, reports, history>>
    /\ UNCHANGED resolveVars

\* the body of for (const item of items)
VisitItem ==
    /\ pc = "item"
    /\ ii <= Len(items)
    /\ LET id == rules[ri]
           item == items[ii]
           itemResult0 == CloneDeep(ItemValue(data, data0, item))
           v == Visit(id, itemResult0)
           itemResult == v.node
           ruleResult == v.result
           itemDiff == Diff(data[item], itemResult)
           applied == ~Failed(ruleResult) /\ Commits(mutate, itemDiff)
       IN  /\ IF Failed(ruleResult)
              THEN /\ logger' = Append(logger, Log("rule failed", id))
                   /\ ctx' = MergeResult(ctx, ruleResult)
                   /\ data' = data
                   /\ ii' = AfterFailure(ii, Len(items))
              ELSE /\ logger' = Append(logger,
                                  IF HasItems(itemDiff)
                                  THEN Log("rule passed with modifications", id)
                                  ELSE Log("rule passed", id))
                   /\ ctx' = ctx
                   /\ data' = IF Commits(mutate, itemDiff)
                              THEN [data EXCEPT ![item] = ApplyDiff(data[item], itemResult)]
                              ELSE data
                   /\ ii' = ii + 1
           /\ history' = Append(history,
                  [run |-> run, ri |-> ri, rule |-> id, item |-> item,
                   cloned |-> itemResult0, itemResult |-> itemResult,
                   errors |-> ruleResult.errors, changes |-> ruleResult.changes,
                   checkRan |-> v.checkRan, applied |-> applied])
    /\ UNCHANGED <<rules, mutate, pc, ri, items, run, data0, reports, picked>>
    /\ UNCHANGED resolveVars

\* the inner loop is over: the next rule
NextRule ==
    /\ pc = "item"
    /\ ii > Len(items)
    /\ ri' = ri + 1
    /\ pc' = "rule"
    /\ UNCHANGED <<rules, data, mutate, ctx, logger, items, ii, run, data0, reports,
                   history, picked>>
    /\ UNCHANGED resolveVars

\* return ctx
Return ==
    /\ pc = "rule"
    /\ ri > Len(rules)
    /\ pc' = "done"
    /\ UNCHANGED <<rules, data, mutate, ctx, logger, ri, items, ii, run, data0, reports,
                   history, picked>>
    /\ UNCHANGED resolveVars

\* visitRules is called again on the same document with the same rules and
\* a context of its own
SecondRun ==
    /\ pc = "done"
    /\ run = "first"
    /\ run' = "second"
    /\ reports' = Append(reports, ctx)
    /\ ctx' = NewContext
    /\ ri' = 1
    /\ items' = <<>>
    /\ ii' = 1
    /\ pc' = "rule"
    /\ UNCHANGED <<rules, data, mutate, logger, data0, history, picked>>
    /\ UNCHANGED resolveVars

Next == PickItems \/ VisitItem \/ NextRule \/ Return \/ SecondRun

Spec == Init /\ [][Next]_vars

(* ---------------------------- resolveRules ---------------------------- *)
\* The criteria are arrays in the program; only membership and intersection
\* are asked of them, so each is kept as the set of its entries.
Criteria(S) == {c \in SUBSET S : Cardinality(c) <= MaxCriteria}

\* createRuleSelector: every criterion an array, empty when not given
Selectors ==
    [excludeLevel : Criteria(Levels), excludeName : Criteria(Names), excludeTag : Criteria(Tags),
     includeLevel : Criteria(Levels), includeName : Criteria(Names), includeTag : Criteria(Tags)]

\* lodash intersection(a, b).length > 0
Intersects(a, b) == a \cap b # {}

\* line 78
ExcludedByLevel(r, sel) == r.level \in sel.excludeLevel
\* line 82
ExcludedByName(r, sel) == r.name \in sel.excludeName
\* variant: a rule is passed over only when all of its tags are excluded
ExcludedByTagAll(r, sel) == r.tags # {} /\ r.tags \subseteq sel.excludeTag
\* lines 86-87
ExcludedByTag(r, sel) == Intersects(sel.excludeTag, r.tags)
\* variant: an empty include list lets every level in
IncludedByLevelOrEmpty(r, sel) == sel.includeLevel = {} \/ r.level \in sel.includeLevel
\* line 91
IncludedByLevel(r, sel) == r.level \in sel.includeLevel
\* line 95
IncludedByName(r, sel) == r.name \in sel.includeName
\* lines 99-100
IncludedByTag(r, sel) == Intersects(sel.includeTag, r.tags)

\* variant: an array push, which keeps duplicates
ListPush(set, x) == Append(set, x)
\* Set.prototype.add: a Set keeps insertion order and holds a value once
SetAdd(set, x) == IF x \in Range(set) THEN set ELSE Append(set, x)

VisitIdle ==
    /\ rules = <<>>
    /\ data = [n \in Nodes |-> [f \in Fields |-> "absent"]]
    /\ mutate = FALSE
    /\ ctx = NewContext
    /\ logger = <<>>
    /\ pc = "idle"
    /\ ri = 1
    /\ items = <<>>
    /\ ii = 1
    /\ run = "first"
    /\ data0 = data
    /\ reports = <<>>
    /\ history = <<>>
    /\ picked = <<>>

\* resolveRules is entered with a catalog and a selector
InitResolve ==
    /\ catalog \in SeqsUpTo(CatalogIds, MaxCatalog)
    /\ selector \in Selectors
    /\ activeRules = <<>>
    /\ rk = 1
    /\ rpc = "loop"
    /\ VisitIdle

\* lines 78-89: an exclude criterion matches, the rule is passed over
Excluded(r, sel) ==
    ExcludedByLevel(r, sel) \/ ExcludedByName(r, sel) \/ ExcludedByTag(r, sel)

\* lines 91-102: the three adds, one after the other
AddIncluded(set, id, sel) ==
    LET r == RuleTable[id]
        byLevel == IF IncludedByLevel(r, sel) THEN SetAdd(set, id) ELSE set
        byName == IF IncludedByName(r, sel) THEN SetAdd(byLevel, id) ELSE byLevel
    IN  IF IncludedByTag(r, sel) THEN SetAdd(byName, id) ELSE byName

\* one turn of for (const r of rules)
ResolveStep ==
    /\ rpc = "loop"
    /\ rk <= Len(catalog)
    /\ activeRules' = IF Excluded(RuleTable[catalog[rk]], selector)
                      THEN activeRules
                      ELSE AddIncluded(activeRules, catalog[rk], selector)
    /\ rk' = rk + 1
    /\ UNCHANGED <<catalog, selector, rpc>>
    /\ UNCHANGED visitVars

\* return Array.from(activeRules)
ResolveReturn ==
    /\ rpc = "loop"
    /\ rk > Len(catalog)
    /\ rpc' = "done"
    /\ UNCHANGED <<catalog, selector, activeRules, rk>>
    /\ UNCHANGED visitVars

NextResolve == ResolveStep \/ ResolveReturn

SpecResolve == InitResolve /\ [][NextResolve]_vars

(* ------------------------ properties: resolveRules -------------------- *)
\* what the selector says of a rule, written from the criteria themselves
MatchesExclude(id) ==
    \/ RuleTable[id].level \in selector.excludeLevel
    \/ RuleTable[id].name \in selector.excludeName
    \/ \E t \in RuleTable[id].tags : t \in selector.excludeTag

MatchesInclude(id) ==
    \/ RuleTable[id].level \in selector.includeLevel
    \/ RuleTable[id].name \in selector.includeName
    \/ \E t \in RuleTable[id].tags : t \in selector.includeTag

FirstIndex(s, x) == CHOOSE i \in DOMAIN s : s[i] = x /\ \A j \in 1..(i - 1) : s[j] # x

\* C1: with all six criteria empty, resolveRules returns no rule, whatever
\* the catalog.
EmptySelectorSelectsNothing ==
    (\A c \in DOMAIN selector : selector[c] = {}) => activeRules = <<>>

EmptySelectorWitness ==
    /\ rpc = "done"
    /\ \A c \in DOMAIN selector : selector[c] = {}
    /\ Len(catalog) >= 2

\* C2: a rule that matches an exclude criterion (level, name or tag) is never
\* among the active rules, whatever include criteria it matches.
ExcludeDominates ==
    \A i \in DOMAIN activeRules : ~MatchesExclude(activeRules[i])

ExcludeDominatesWitness ==
    /\ rpc = "done"
    /\ \E k \in DOMAIN catalog :
          /\ \E t \in RuleTable[catalog[k]].tags :
                t \in selector.includeTag /\ t \in selector.excludeTag
          /\ catalog[k] \notin Range(activeRules)

\* C8: the list returned holds exactly the rules of the catalog that match no
\* exclude criterion and at least one include criterion, each once, in the
\* order of their first addition (their first occurrence in the catalog).
ResolveExact ==
    rpc = "done" =>
        /\ Range(activeRules) =
              {id \in Range(catalog) : ~MatchesExclude(id) /\ MatchesInclude(id)}
        /\ \A i, j \in DOMAIN activeRules :
              i < j => /\ activeRules[i] # activeRules[j]
                       /\ FirstIndex(catalog, activeRules[i]) < FirstIndex(catalog, activeRules[j])

\* a rule that occurs twice in the catalog and matches two include criteria
ResolveExactWitness ==
    /\ rpc = "done"
    /\ Len(catalog) >= 2
    /\ catalog[1] = catalog[2]
    /\ RuleTable[catalog[1]].level \in selector.includeLevel
    /\ RuleTable[catalog[1]].name \in selector.includeName
    /\ activeRules = <<catalog[1]>>

(* ------------------------- properties: visitRules --------------------- *)
Last(s) == s[Len(s)]

\* the records of the call under way
ThisRun(s) == SelectSeq(s, LAMBDA h : h.run = run)

\* the document after the first k visits: every committed working copy
\* written over the element it was cloned from
RECURSIVE Replay(_)
Replay(k) ==
    IF k = 0 THEN data0
    ELSE LET h == history[k]
             prev == Replay(k - 1)
         IN  IF h.applied THEN [prev EXCEPT ![h.item] = h.itemResult] ELSE prev

\* the verdicts of a rule's predicates on a node, from the schemas themselves
FilterAccepts(id, node) ==
    RuleTable[id].filter = <<>> \/ Validate(RuleTable[id].filter[1], node).valid

AfterFilter(id, node) ==
    IF RuleTable[id].filter = <<>> THEN node ELSE Validate(RuleTable[id].filter[1], node).node

CheckOutcome(id, node) == Validate(RuleTable[id].check, AfterFilter(id, node))

\* C3: the live document changes only in the step of a (rule, node) pair
\* whose visit returned no error, only with mutate set, and only at that node.
MutationOnlyWhenCleanAndEnabled ==
    [][data' # data =>
          /\ pc = "item" /\ ii <= Len(items)
          /\ mutate
          /\ Len(history') = Len(history) + 1
          /\ Last(history').errors = <<>>
          /\ \A n \in Nodes \ {items[ii]} : data'[n] = data[n]]_vars

MutationWitness ==
    /\ mutate
    /\ data # data0
    /\ \E k \in DOMAIN history : history[k].applied
    /\ \E k \in DOMAIN history :
          history[k].errors # <<>> /\ history[k].itemResult # history[k].cloned

\* C4: with mutate false the document equals its initial value at the end of
\* each call, and the second call reports the same set of errors as the first.
TwoRunsIdempotent ==
    (~mutate /\ pc = "done") =>
        /\ data = data0
        /\ run = "second" => Range(ctx.errors) = Range(reports[1].errors)

TwoRunsWitness ==
    /\ ~mutate
    /\ pc = "done"
    /\ run = "second"
    /\ ctx.errors # <<>>
    /\ \E k \in DOMAIN history :
          history[k].errors = <<>> /\ history[k].itemResult # history[k].cloned

\* C5: when a rule passes on a node with a non-empty diff and mutate is
\* false, the document is unchanged and the changes of the context's report
\* hold the would-be change.
WouldBeChangeReported ==
    \A k \in DOMAIN history :
        LET h == history[k]
            d == Diff(h.cloned, h.itemResult)
        IN  (~mutate /\ h.run = run /\ h.errors = <<>> /\ d # <<>>) =>
                /\ data = data0
                /\ \A i \in DOMAIN d : \E j \in DOMAIN ctx.changes : ctx.changes[j] = d[i]

\* C6: rules are picked in order, each pick is made on the document as the
\* commits so far left it, and each working copy is a copy of the node as
\* the commits so far left it.  history and picked only grow, so stating it
\* of the newest record in every state states it of every record.
SequentialConsistency ==
    /\ data = Replay(Len(history))
    /\ history # <<>> =>
          Last(history).cloned = Replay(Len(history) - 1)[Last(history).item]
    /\ picked # <<>> =>
          LET p == Len(picked)
          IN  /\ picked[p].items =
                    Pick(RuleTable[rules[picked[p].ri]].select, Replay(picked[p].seen))
              /\ p > 1 /\ picked[p - 1].run = picked[p].run => picked[p].ri = picked[p - 1].ri + 1
              /\ p = 1 \/ picked[p - 1].run # picked[p].run => picked[p].ri = 1

\* within one call, a later rule visits a node an earlier rule changed and a
\* later pick selects a node only because of an earlier commit
SequentialWitness ==
    /\ run = "first"
    /\ \E k \in DOMAIN history :
          /\ history[k].ri > 1
          /\ history[k].cloned # data0[history[k].item]
    /\ \E p \in DOMAIN picked :
          picked[p].items # Pick(RuleTable[rules[picked[p].ri]].select, data0)

RECURSIVE ErrorsOf(_)
ErrorsOf(hs) ==
    IF hs = <<>> THEN <<>>
    ELSE LET h == Head(hs)
             out == CheckOutcome(h.rule, h.cloned)
         IN  (IF FilterAccepts(h.rule, h.cloned) /\ ~out.valid
              THEN [i \in DOMAIN out.errors |->
                        [rule |-> h.rule, path |-> out.errors[i].dataPath,
                         msg |-> out.errors[i].keyword]]
              ELSE <<>>) \o ErrorsOf(Tail(hs))

\* C7: at the end of a call every picked node of every rule has been visited
\* exactly once, in order, whatever failed on the way, and the report holds
\* the errors of every failing pair.
FailureIsolation ==
    pc = "done" =>
        /\ \A r \in DOMAIN rules :
              LET ps == SelectSeq(ThisRun(picked), LAMBDA p : p.ri = r)
                  hs == SelectSeq(ThisRun(history), LAMBDA h : h.ri = r)
              IN  /\ Len(ps) = 1
                  /\ [i \in DOMAIN hs |-> hs[i].item] = ps[1].items
                  /\ \A i \in DOMAIN hs : hs[i].rule = rules[r]
        /\ ctx.errors = ErrorsOf(ThisRun(history))

\* a failing pair followed by another node of the same rule and by another rule
FailureIsolationWitness ==
    /\ pc = "done"
    /\ \E k \in DOMAIN history :
          /\ history[k].errors # <<>>
          /\ k + 2 <= Len(history)
          /\ history[k + 1].run = history[k].run /\ history[k + 1].ri = history[k].ri
          /\ history[k + 2].run = history[k].run /\ history[k + 2].ri > history[k].ri

\* C9: visit returns no error when the filter rejects the node (the check is
\* then not evaluated) or the check accepts it; when the filter accepts and
\* the check rejects, one error per descriptor of the check, each naming the
\* rule; the changes returned are always empty.  Stated of the newest visit
\* in every state.
VisitContract ==
    history # <<>> =>
        LET h == Last(history)
            out == CheckOutcome(h.rule, h.cloned)
        IN  /\ h.changes = <<>>
            /\ ~FilterAccepts(h.rule, h.cloned) =>
                  /\ h.errors = <<>>
                  /\ ~h.checkRan
                  /\ h.itemResult = AfterFilter(h.rule, h.cloned)
            /\ FilterAccepts(h.rule, h.cloned) /\ out.valid =>
                  h.errors = <<>> /\ h.itemResult = out.node
            /\ FilterAccepts(h.rule, h.cloned) /\ ~out.valid =>
                  /\ Len(h.errors) = Len(out.errors)
                  /\ h.itemResult = out.node
                  /\ \A i \in DOMAIN h.errors :
                        /\ h.errors[i].rule = h.rule
                        /\ h.errors[i].path = out.errors[i].dataPath

\* a node the filter rejected, a node with two descriptors, a node that passed
VisitContractWitness ==
    /\ \E k \in DOMAIN history :
          /\ ~FilterAccepts(history[k].rule, history[k].cloned)
          /\ CheckOutcome(history[k].rule, history[k].cloned).errors # <<>>
    /\ \E k \in DOMAIN history : Len(history[k].errors) = 2
    /\ \E k \in DOMAIN history :
          /\ RuleTable[history[k].rule].filter # <<>>
          /\ FilterAccepts(history[k].rule, history[k].cloned)

\* C10: the live document changes at a (rule, node) step only if the rule's
\* filter accepted the working copy and the rule's check accepted it.
MutationOnlyWhenAccepted ==
    [][(data' # data /\ pc = "item" /\ ii <= Len(items)) =>
          /\ FilterAccepts(rules[ri], data[items[ii]])
          /\ CheckOutcome(rules[ri], data[items[ii]]).valid]_vars

=============================================================================
